---- MODULE Spec2Model ----
(***************************************************************************)
(* A model of the bnl boolean network (src/src/network.rs, src/src/main.rs) *)
(* compute_boolean, zip_combinator, Neuron, Layer and Network, with the     *)
(* panics of the Rust code (slice/index out of bounds, the explicit panic!  *)
(* of zip_combinator) kept as results.                                      *)
(***************************************************************************)
EXTENDS Integers, Sequences, FiniteSets

VARIABLES
    \* one call of compute_boolean
    cb_left, cb_right, cb_combinator, cb_ret,
    \* one neuron, one call of a Neuron method on it
    new_len, neuron, vec, ncall, nret,
    \* Network::new(input_len, layer_lengths) followed by Network::apply(input)
    input_len, layer_lengths, rng, layers, input,
    pc, res, li, linput, out, ret, msg

opVars == <<cb_left, cb_right, cb_combinator, cb_ret>>
neuronVars == <<new_len, neuron, vec, ncall, nret>>
netVars == <<input_len, layer_lengths, rng, layers, input,
             pc, res, li, linput, out, ret, msg>>
vars == <<opVars, neuronVars, netVars>>

----------------------------------------------------------------------------
\* Bounds of the model.
MaxInputLen == 3
MaxLayers == 2
MaxNeurons == 2
MaxSeed == 2

\* The largest value of a u8 combinator.
MaxU8 == 255
\* rng.gen_range(0, 16): the exclusive upper end of the drawn codes.
NumCombinators == 16

BoolVecs(maxlen) == UNION {[1..n -> BOOLEAN] : n \in 0..maxlen}

----------------------------------------------------------------------------
\* Results of a call: a returned value, or a panic with its message.
Ok(v) == [ok |-> TRUE, val |-> v, msg |-> ""]
Panic(m) == [ok |-> FALSE, val |-> FALSE, msg |-> m]

IndexPanic == "index out of bounds"
UnreachablePanic == "This shouldn't happen!"

----------------------------------------------------------------------------
\* compute_boolean with the arms for 11 and 13 exchanged.
compute_boolean_swapped(left, right, combinator) ==
    CASE combinator = 0  -> FALSE
      [] combinator = 1  -> left /\ right
      [] combinator = 2  -> left /\ ~right
      [] combinator = 3  -> left
      [] combinator = 4  -> ~left /\ right
      [] combinator = 5  -> right
      [] combinator = 6  -> (left /\ ~right) \/ (~left /\ right)
      [] combinator = 7  -> left \/ right
      [] combinator = 8  -> ~(left \/ right)
      [] combinator = 9  -> (left /\ right) \/ (~left /\ ~right)
      [] combinator = 10 -> ~right
      [] combinator = 11 -> ~left \/ right
      [] combinator = 12 -> ~left
      [] combinator = 13 -> left \/ ~right
      [] combinator = 14 -> ~(left /\ right)
      [] OTHER           -> TRUE

\* compute_boolean whose fallback arm yields false.
compute_boolean_fallback_false(left, right, combinator) ==
    CASE combinator = 0  -> FALSE
      [] combinator = 1  -> left /\ right
      [] combinator = 2  -> left /\ ~right
      [] combinator = 3  -> left
      [] combinator = 4  -> ~left /\ right
      [] combinator = 5  -> right
      [] combinator = 6  -> (left /\ ~right) \/ (~left /\ right)
      [] combinator = 7  -> left \/ right
      [] combinator = 8  -> ~(left \/ right)
      [] combinator = 9  -> (left /\ right) \/ (~left /\ ~right)
      [] combinator = 10 -> ~right
      [] combinator = 11 -> left \/ ~right
      [] combinator = 12 -> ~left
      [] combinator = 13 -> ~left \/ right
      [] combinator = 14 -> ~(left /\ right)
      [] combinator = 15 -> TRUE
      [] OTHER           -> FALSE

\* network.rs:118-137
compute_boolean(left, right, combinator) ==
    CASE combinator = 0  -> FALSE
      [] combinator = 1  -> left /\ right
      [] combinator = 2  -> left /\ ~right
      [] combinator = 3  -> left
      [] combinator = 4  -> ~left /\ right
      [] combinator = 5  -> right
      [] combinator = 6  -> (left /\ ~right) \/ (~left /\ right)
      [] combinator = 7  -> left \/ right
      [] combinator = 8  -> ~(left \/ right)
      [] combinator = 9  -> (left /\ right) \/ (~left /\ ~right)
      [] combinator = 10 -> ~right
      [] combinator = 11 -> left \/ ~right
      [] combinator = 12 -> ~left
      [] combinator = 13 -> ~left \/ right
      [] combinator = 14 -> ~(left /\ right)
      [] OTHER           -> TRUE

----------------------------------------------------------------------------
\* zip_combinator that hands the whole combinator vector to the recursive call.
RECURSIVE zip_combinator_unsliced(_, _, _)
zip_combinator_unsliced(left, remaining, combinators) ==
    CASE Len(remaining) = 0 -> Panic(UnreachablePanic)
      [] Len(remaining) = 1 ->
            IF Len(combinators) = 0 THEN Panic(IndexPanic)
            ELSE Ok(compute_boolean(left, remaining[1], combinators[1]))
      [] OTHER ->
            IF Len(combinators) = 0 THEN Panic(IndexPanic)
            ELSE LET inner == zip_combinator_unsliced(remaining[1], Tail(remaining),
                                                      combinators)
                 IN  IF ~inner.ok THEN inner
                     ELSE Ok(compute_boolean(left, inner.val, combinators[1]))

\* zip_combinator that returns left for an empty remainder.
RECURSIVE zip_combinator_default(_, _, _)
zip_combinator_default(left, remaining, combinators) ==
    CASE Len(remaining) = 0 -> Ok(left)
      [] Len(remaining) = 1 ->
            IF Len(combinators) = 0 THEN Panic(IndexPanic)
            ELSE Ok(compute_boolean(left, remaining[1], combinators[1]))
      [] OTHER ->
            IF Len(combinators) = 0 THEN Panic(IndexPanic)
            ELSE LET inner == zip_combinator_default(remaining[1], Tail(remaining),
                                                     Tail(combinators))
                 IN  IF ~inner.ok THEN inner
                     ELSE Ok(compute_boolean(left, inner.val, combinators[1]))

\* zip_combinator whose base case takes the last combinator it was given.
RECURSIVE zip_combinator_last(_, _, _)
zip_combinator_last(left, remaining, combinators) ==
    CASE Len(remaining) = 0 -> Panic(UnreachablePanic)
      [] Len(remaining) = 1 ->
            IF Len(combinators) = 0 THEN Panic(IndexPanic)
            ELSE Ok(compute_boolean(left, remaining[1],
                                    combinators[Len(combinators)]))
      [] OTHER ->
            IF Len(combinators) = 0 THEN Panic(IndexPanic)
            ELSE LET inner == zip_combinator_last(remaining[1], Tail(remaining),
                                                  Tail(combinators))
                 IN  IF ~inner.ok THEN inner
                     ELSE Ok(compute_boolean(left, inner.val, combinators[1]))

\* network.rs:140-146.  remaining[0] and combinators[0] are the heads;
\* combinators[0] and combinators[1..] panic on an empty combinator vector.
RECURSIVE zip_combinator(_, _, _)
zip_combinator(left, remaining, combinators) ==
    CASE Len(remaining) = 0 -> Panic(UnreachablePanic)
      [] Len(remaining) = 1 ->
            IF Len(combinators) = 0 THEN Panic(IndexPanic)
            ELSE Ok(compute_boolean(left, remaining[1], combinators[1]))
      [] OTHER ->
            IF Len(combinators) = 0 THEN Panic(IndexPanic)
            ELSE LET inner == zip_combinator(remaining[1], Tail(remaining),
                                             Tail(combinators))
                 IN  IF ~inner.ok THEN inner
                     ELSE Ok(compute_boolean(left, inner.val, combinators[1]))

----------------------------------------------------------------------------
\* Neuron::apply_input that slices the remainder from index 2.
Neuron_apply_input_skip(n, v) ==
    IF Len(v) < 2 THEN Panic(IndexPanic)
    ELSE zip_combinator(v[1], SubSeq(v, 3, Len(v)), n.input_combinators)

\* network.rs:90-92.  input[0] panics on an empty vector.
Neuron_apply_input(n, v) ==
    IF Len(v) = 0 THEN Panic(IndexPanic)
    ELSE zip_combinator(v[1], Tail(v), n.input_combinators)

\* network.rs:96-98
Neuron_apply_result(n, b) ==
    compute_boolean(b, n.bias, n.result_combinator)

\* network.rs:84-86
Neuron_apply(n, v) ==
    LET folded == Neuron_apply_input(n, v)
    IN  IF ~folded.ok THEN folded
        ELSE Ok(Neuron_apply_result(n, folded.val))

----------------------------------------------------------------------------
\* The thread-local generator behind rand::thread_rng(): a state in 0..255
\* stepped by a full-period congruence; each draw reads the state and steps it.
RngStates == 0..255
rng_next(g) == (5 * g + 3) % 256
\* rng.gen_range(lo, hi): a value in lo..hi-1
gen_range(lo, hi, g) == lo + ((g \div 16) % (hi - lo))
\* rng.gen::<bool>()
gen_bool(g) == ((g \div 8) % 2) = 1

\* network.rs:105-107, the loop that pushes the drawn combinators
RECURSIVE push_combinators(_, _, _)
push_combinators(ic, count, g) ==
    IF count <= 0 THEN [ic |-> ic, rng |-> g]
    ELSE push_combinators(Append(ic, gen_range(0, NumCombinators, g)),
                          count - 1, rng_next(g))

\* Neuron::new that draws one combinator per adjacent pair of inputs.
Neuron_new_pairs(len, g) ==
    LET drawn == push_combinators(<<>>, len - 1, g)
        g1 == drawn.rng
        g2 == rng_next(g1)
    IN  [neuron |-> [bias |-> gen_bool(g1),
                     input_combinators |-> drawn.ic,
                     result_combinator |-> gen_range(0, NumCombinators, g2)],
         rng |-> rng_next(g2)]

\* network.rs:101-113
Neuron_new(len, g) ==
    LET drawn == push_combinators(<<>>, len, g)
        g1 == drawn.rng
        g2 == rng_next(g1)
    IN  [neuron |-> [bias |-> gen_bool(g1),
                     input_combinators |-> drawn.ic,
                     result_combinator |-> gen_range(0, NumCombinators, g2)],
         rng |-> rng_next(g2)]

\* network.rs:21-23, the loop that pushes the neurons
RECURSIVE push_neurons(_, _, _, _)
push_neurons(n, len, count, g) ==
    IF count = 0 THEN [neurons |-> n, rng |-> g]
    ELSE LET made == Neuron_new(len, g)
         IN  push_neurons(Append(n, made.neuron), len, count - 1, made.rng)

\* network.rs:19-27
Layer_new(len, num_neurons, g) ==
    LET pushed == push_neurons(<<>>, len, num_neurons, g)
    IN  [layer |-> [neurons |-> pushed.neurons], rng |-> pushed.rng]

\* network.rs:52-58, the loop that pushes the layers
RECURSIVE push_layers(_, _, _, _, _)
push_layers(l, i, len, lengths, g) ==
    IF i > Len(lengths) THEN [layers |-> l, rng |-> g]
    ELSE LET made == IF i = 1 THEN Layer_new(len, lengths[i], g)
                     ELSE Layer_new(lengths[i - 1], lengths[i], g)
         IN  push_layers(Append(l, made.layer), i + 1, len, lengths, made.rng)

\* network.rs:50-62
Network_new(len, lengths, g) ==
    push_layers(<<>>, 1, len, lengths, g)

----------------------------------------------------------------------------
\* Values of the variables a specification does not use.
NotCalled == [ok |-> FALSE, val |-> FALSE, msg |-> "not called"]

IdleOp ==
    /\ cb_left = FALSE /\ cb_right = FALSE /\ cb_combinator = 0 /\ cb_ret = <<>>

IdleNeuron ==
    /\ new_len = 0
    /\ neuron = [bias |-> FALSE, input_combinators |-> <<>>, result_combinator |-> 0]
    /\ vec = <<>> /\ ncall = "none" /\ nret = NotCalled

IdleNet ==
    /\ input_len = 0 /\ layer_lengths = <<>> /\ rng = 0 /\ layers = <<>>
    /\ input = <<>> /\ pc = "idle" /\ res = <<>> /\ li = 0 /\ linput = <<>>
    /\ out = <<>> /\ ret = <<>> /\ msg = ""

----------------------------------------------------------------------------
\* SpecOp: compute_boolean on every pair of booleans and every u8 combinator.
InitOp ==
    /\ cb_left \in BOOLEAN /\ cb_right \in BOOLEAN
    /\ cb_combinator \in 0..MaxU8
    /\ cb_ret = <<>>
    /\ IdleNeuron /\ IdleNet

compute_boolean_call ==
    /\ cb_ret = <<>>
    /\ cb_ret' = <<compute_boolean(cb_left, cb_right, cb_combinator)>>
    /\ UNCHANGED <<cb_left, cb_right, cb_combinator, neuronVars, netVars>>

NextOp == compute_boolean_call

SpecOp == InitOp /\ [][NextOp]_vars

----------------------------------------------------------------------------
\* SpecNeuron: a neuron made by Neuron::new(new_len), and one call of
\* Neuron::apply or Neuron::apply_input on a vector of any length up to
\* MaxInputLen + 1.
InitNeuron ==
    /\ new_len \in 0..MaxInputLen
    /\ \E g \in RngStates : neuron = Neuron_new(new_len, g).neuron
    /\ vec \in BoolVecs(MaxInputLen + 1)
    /\ ncall = "none" /\ nret = NotCalled
    /\ IdleOp /\ IdleNet

Neuron_apply_call ==
    /\ ncall = "none"
    /\ ncall' = "apply"
    /\ nret' = Neuron_apply(neuron, vec)
    /\ UNCHANGED <<new_len, neuron, vec, opVars, netVars>>

Neuron_apply_input_call ==
    /\ ncall = "none"
    /\ ncall' = "apply_input"
    /\ nret' = Neuron_apply_input(neuron, vec)
    /\ UNCHANGED <<new_len, neuron, vec, opVars, netVars>>

NextNeuron == Neuron_apply_call \/ Neuron_apply_input_call

SpecNeuron == InitNeuron /\ [][NextNeuron]_vars

----------------------------------------------------------------------------
\* Spec: Network::new(input_len, layer_lengths), then Network::apply(input),
\* layer by layer and neuron by neuron.
Init ==
    /\ input_len \in 0..MaxInputLen
    /\ layer_lengths \in UNION {[1..k -> 0..MaxNeurons] : k \in 0..MaxLayers}
    /\ rng \in 0..MaxSeed
    /\ input \in BoolVecs(MaxInputLen + 1)
    /\ layers = <<>> /\ pc = "new"
    /\ res = <<>> /\ li = 0 /\ linput = <<>> /\ out = <<>> /\ ret = <<>> /\ msg = ""
    /\ IdleOp /\ IdleNeuron

\* network.rs:50-62
Network_new_call ==
    /\ pc = "new"
    /\ LET made == Network_new(input_len, layer_lengths, rng)
       IN  /\ layers' = made.layers
           /\ rng' = made.rng
    /\ pc' = "built"
    /\ UNCHANGED <<input_len, layer_lengths, input, res, li, linput, out, ret, msg,
                   opVars, neuronVars>>

\* network.rs:41, let mut res = input.clone()
Network_apply_call ==
    /\ pc = "built"
    /\ res' = input
    /\ li' = 1
    /\ pc' = "layers"
    /\ UNCHANGED <<input_len, layer_lengths, rng, layers, input, linput, out, ret,
                   msg, opVars, neuronVars>>

\* Layer::apply entered with the original input instead of res.
Layer_apply_call_input ==
    /\ pc = "layers" /\ li <= Len(layers)
    /\ linput' = input
    /\ out' = <<>>
    /\ pc' = "neurons"
    /\ UNCHANGED <<input_len, layer_lengths, rng, layers, input, res, li, ret, msg,
                   opVars, neuronVars>>

\* network.rs:42-43, layer.apply(res) entered: res is moved into its input
Layer_apply_call ==
    /\ pc = "layers" /\ li <= Len(layers)
    /\ linput' = res
    /\ out' = <<>>
    /\ pc' = "neurons"
    /\ UNCHANGED <<input_len, layer_lengths, rng, layers, input, res, li, ret, msg,
                   opVars, neuronVars>>

\* The map of Layer::apply collecting each result in front of the others.
Layer_apply_neuron_front ==
    /\ pc = "neurons" /\ Len(out) < Len(layers[li].neurons)
    /\ LET r == Neuron_apply(layers[li].neurons[Len(out) + 1], linput)
       IN  IF r.ok
           THEN /\ out' = <<r.val>> \o out
                /\ UNCHANGED <<pc, msg>>
           ELSE /\ pc' = "panic"
                /\ msg' = r.msg
                /\ UNCHANGED out
    /\ UNCHANGED <<input_len, layer_lengths, rng, layers, input, res, li, linput,
                   ret, opVars, neuronVars>>

\* network.rs:14, one step of the map: n.apply(input.clone()) for the next
\* neuron; a panic of the neuron ends the whole evaluation.
Layer_apply_neuron ==
    /\ pc = "neurons" /\ Len(out) < Len(layers[li].neurons)
    /\ LET r == Neuron_apply(layers[li].neurons[Len(out) + 1], linput)
       IN  IF r.ok
           THEN /\ out' = Append(out, r.val)
                /\ UNCHANGED <<pc, msg>>
           ELSE /\ pc' = "panic"
                /\ msg' = r.msg
                /\ UNCHANGED out
    /\ UNCHANGED <<input_len, layer_lengths, rng, layers, input, res, li, linput,
                   ret, opVars, neuronVars>>

\* network.rs:14 and 43, collect() returns and the result is assigned to res
Layer_apply_return ==
    /\ pc = "neurons" /\ Len(out) = Len(layers[li].neurons)
    /\ res' = out
    /\ li' = li + 1
    /\ pc' = "layers"
    /\ UNCHANGED <<input_len, layer_lengths, rng, layers, input, linput, out, ret,
                   msg, opVars, neuronVars>>

\* network.rs:45, the loop is over and res is returned
Network_apply_return ==
    /\ pc = "layers" /\ li > Len(layers)
    /\ ret' = res
    /\ pc' = "done"
    /\ UNCHANGED <<input_len, layer_lengths, rng, layers, input, res, li, linput,
                   out, msg, opVars, neuronVars>>

Next ==
    \/ Network_new_call
    \/ Network_apply_call
    \/ Layer_apply_call
    \/ Layer_apply_neuron
    \/ Layer_apply_return
    \/ Network_apply_return

Spec == Init /\ [][Next]_vars

----------------------------------------------------------------------------
\* The 16-entry truth table of two-input boolean logic, entry c + 1 for code c.
TruthTable(L, R) ==
    << FALSE,      L /\ R,    L /\ ~R,   L,
       ~L /\ R,    R,         L # R,     L \/ R,
       ~(L \/ R),  L = R,     ~R,        L \/ ~R,
       ~L,         ~L \/ R,   ~(L /\ R), TRUE >>

\* C1: for every code in 0..15 and every pair (left, right), compute_boolean
\* returns the truth-table value; code 6 is left # right and code 9 is
\* left = right.
C1_TableTotality ==
    (cb_ret # <<>> /\ cb_combinator <= 15) =>
        /\ cb_ret[1] = TruthTable(cb_left, cb_right)[cb_combinator + 1]
        /\ (cb_combinator = 6 => cb_ret[1] = (cb_left # cb_right))
        /\ (cb_combinator = 9 => cb_ret[1] = (cb_left = cb_right))

C1_Witness ==
    /\ cb_ret = <<TRUE>> /\ cb_combinator = 13 /\ ~cb_left /\ ~cb_right

\* C8: for every code in 16..255 and every pair (left, right), compute_boolean
\* returns true, the value of code 15.
C8_OutOfRangeIsTrue ==
    (cb_ret # <<>> /\ cb_combinator > 15) =>
        /\ cb_ret[1] = TRUE
        /\ cb_ret[1] = compute_boolean(cb_left, cb_right, 15)

C8_Witness ==
    /\ cb_ret = <<TRUE>> /\ cb_combinator = MaxU8 /\ ~cb_left /\ ~cb_right

----------------------------------------------------------------------------
\* The right-associative fold F(i) of a unit n over the vector v, by index:
\* F(Len(v) - 1) is the base case on the last two elements.
RECURSIVE Fold(_, _, _)
Fold(n, v, i) ==
    IF i = Len(v) - 1
    THEN compute_boolean(v[i], v[i + 1], n.input_combinators[i])
    ELSE compute_boolean(v[i], Fold(n, v, i + 1), n.input_combinators[i])

\* C2: on an input of length n >= 2 (the unit holding the n - 1 combinators
\* the fold reads), Neuron::apply is compute_boolean(F(first), bias,
\* result_combinator), Neuron::apply_input is F(first), and for n = 2 the fold
\* is the base case alone.
C2_FoldCorrect ==
    (/\ ncall # "none"
     /\ Len(vec) >= 2
     /\ Len(neuron.input_combinators) >= Len(vec) - 1) =>
        /\ ncall = "apply" =>
             nret = Ok(compute_boolean(Fold(neuron, vec, 1), neuron.bias,
                                       neuron.result_combinator))
        /\ ncall = "apply_input" => nret = Ok(Fold(neuron, vec, 1))
        /\ (ncall = "apply" /\ Len(vec) = 2) =>
             nret = Ok(compute_boolean(
                         compute_boolean(vec[1], vec[2],
                                         neuron.input_combinators[1]),
                         neuron.bias, neuron.result_combinator))

C2_Witness ==
    /\ ncall = "apply" /\ new_len = 3 /\ Len(vec) = 3 /\ nret.ok
    /\ neuron.input_combinators[1] # neuron.input_combinators[2]

\* C6: Neuron::apply and Neuron::apply_input on a vector of length 0 or 1
\* never return a boolean; the call ends in a panic.
C6_ShortInputPanics ==
    (ncall \in {"apply", "apply_input"} /\ Len(vec) < 2) =>
        /\ ~nret.ok
        /\ nret.msg \in {IndexPanic, UnreachablePanic}

C6_Witness ==
    /\ ncall = "apply" /\ new_len = 2 /\ Len(vec) = 1
    /\ nret = Panic(UnreachablePanic)

\* C10: for a unit made by Neuron::new(n), n >= 2, and an input of length n,
\* the result of Neuron::apply is the same whatever the last drawn entry of
\* input_combinators is.
C10_LastCombinatorUnused ==
    (ncall = "apply" /\ new_len >= 2 /\ Len(vec) = new_len) =>
        /\ nret.ok
        /\ Len(neuron.input_combinators) = new_len
        /\ \A c \in 0..(NumCombinators - 1) :
             Neuron_apply([neuron EXCEPT !.input_combinators[new_len] = c], vec)
                = nret

C10_Witness ==
    /\ ncall = "apply" /\ new_len = 3 /\ Len(vec) = 3 /\ nret.ok
    /\ neuron.input_combinators[3] \notin {0, 15}

----------------------------------------------------------------------------
\* The input length of layer i (1-based) of Network::new(input_len,
\* layer_lengths).
InLen(i) == IF i = 1 THEN input_len ELSE layer_lengths[i - 1]

C4_DimensionMismatch ==
    /\ (Len(input) # input_len /\ pc \in {"done", "panic"}) =>
           (pc = "panic" /\ msg = "DimensionMismatch")
    /\ (pc = "layers" /\ li > 1) => Len(linput) = InLen(li - 1)

----------------------------------------------------------------------------
\* Layer i applied to v, as a whole: the vector of its units' outputs, or the
\* panic of the first unit that panics.
LayerOutput(layer, v) ==
    LET r(j) == Neuron_apply(layer.neurons[j], v)
        bad == {j \in 1..Len(layer.neurons) : ~r(j).ok}
    IN  IF bad # {}
        THEN [ok |-> FALSE, val |-> <<>>,
              msg |-> r(CHOOSE j \in bad : \A k \in bad : j <= k).msg]
        ELSE [ok |-> TRUE, val |-> [j \in 1..Len(layer.neurons) |-> r(j).val],
              msg |-> ""]

\* r_0 = input, r_(i+1) = Layer_i.apply(r_i)
RECURSIVE Threaded(_)
Threaded(k) ==
    IF k = 0 THEN [ok |-> TRUE, val |-> input, msg |-> ""]
    ELSE LET prev == Threaded(k - 1)
         IN  IF ~prev.ok THEN prev ELSE LayerOutput(layers[k], prev.val)

\* C5: Network::apply returns r_k for a network of k layers: the last layer's
\* output, of length the last layer's unit count, for k >= 1, and the input
\* unchanged for k = 0; it panics exactly when the threading does.
C5_Threading ==
    /\ pc = "done" =>
        /\ Threaded(Len(layers)).ok
        /\ ret = Threaded(Len(layers)).val
        /\ Len(layers) >= 1 => Len(ret) = Len(layers[Len(layers)].neurons)
        /\ Len(layers) = 0 => ret = input
    /\ pc = "panic" =>
        /\ ~Threaded(Len(layers)).ok
        /\ msg = Threaded(Len(layers)).msg

C5_Witness ==
    /\ pc = "done" /\ Len(layers) = 2 /\ input_len = 3 /\ Len(input) = 3
    /\ Len(layers[1].neurons) = 2 /\ Len(ret) = 2
    /\ ret # LayerOutput(layers[2], input).val

\* C7: Layer::apply returns one element per unit, the j-th being
\* Neuron_j.apply on the vector the layer was given; while the map is running
\* the elements collected so far are those of the first units, in order.
C7_LayerApply ==
    /\ (pc = "layers" /\ li > 1) =>
        /\ Len(res) = Len(layers[li - 1].neurons)
        /\ \A j \in 1..Len(res) :
             Neuron_apply(layers[li - 1].neurons[j], linput) = Ok(res[j])
    /\ pc = "neurons" =>
        /\ Len(out) <= Len(layers[li].neurons)
        /\ \A j \in 1..Len(out) :
             Neuron_apply(layers[li].neurons[j], linput) = Ok(out[j])

C7_Witness ==
    /\ pc = "layers" /\ li = 2 /\ Len(res) = 2 /\ res[1] # res[2]
    /\ Len(linput) = 3

----------------------------------------------------------------------------
====
